---- MODULE Spec2Model ----
(***************************************************************************)
(* gocoverdir: recursive walk of a source tree, one "go test -cover" per   *)
(* directory holding .go files, merge of the per-directory profiles and    *)
(* the statement-coverage computation, as coded in src/gocoverdir.go.      *)
(*                                                                         *)
(* Conventions.                                                            *)
(*  - A name is a sequence of one-character strings; a path is a sequence  *)
(*    of names (the root "." is the empty path).                           *)
(*  - A file's contents are a sequence of chunks; the chunk "\n" is the    *)
(*    newline byte and every other chunk is a run of bytes holding no      *)
(*    newline.                                                             *)
(*  - requiredcoverage is held in units of 10^-5 percent (E5), a coverage  *)
(*    value as the exact fraction num/den; float64 rounding is not         *)
(*    modelled, and no input of the model lies on a comparison's boundary. *)
(***************************************************************************)
EXTENDS Integers, Sequences, FiniteSets, TLC

VARIABLES
    args,               \* gocoverdir.args: the parsed flags
    fsys,               \* the source tree under the working directory
    pc,                 \* position in main
    log,                \* gocoverdir.log: "nil" or "set"
    ignoreDirSet,       \* gocoverdir.ignoreDirSet
    godepEnabled,       \* gocoverdir.godepEnabled
    storeDir,           \* gocoverdir.storeDir ("" until setup creates it)
    scratchExists,      \* the scratch directory is on disk
    scratch,            \* its files, in listing order
    currentOutputIndex, \* gocoverdir.currentOutputIndex
    stack,              \* the coverDirectory calls in progress
    ret,                \* value returned by the call that just ended
    err,                \* main's err, handed to handleErr
    entered,            \* <<path, depth>> of every coverDirectory call
    listed,             \* every directory whose entries were read
    invoked,            \* every directory passed to coverDir
    spawned,            \* test-runner subprocesses started
    failed,             \* the first step of the walk that failed ("none" so far)
    outputFile,         \* contents of the file at args.coverprofile
    written,            \* handleErr wrote args.coverprofile
    scratchRead,        \* handleErr listed the scratch directory
    htmlGenerated,      \* "go tool cover -html" was run
    computed,           \* calculateCoverage results, in order
    printed,            \* coverage lines printed to stdout
    panicMsg,           \* the panic in flight ("none" when there is none)
    exitStatus          \* 0, 2 (panic) or -1 while running

vars == <<args, fsys, pc, log, ignoreDirSet, godepEnabled, storeDir, scratchExists,
          scratch, currentOutputIndex, stack, ret, err, entered, listed, invoked,
          spawned, failed, outputFile, written, scratchRead, htmlGenerated, computed,
          printed, panicMsg, exitStatus>>

----------------------------------------------------------------------------
(* Bounds of the model *)

\* -depth is drawn from -1..MaxDepthArg
MaxDepthArg == 2
\* files in the scratch area of the merge specification: 0..MaxFiles
MaxFiles == 3
\* blocks in a parsed profile of the coverage specification: 0..MaxBlocks
MaxBlocks == 3

----------------------------------------------------------------------------
(* Strings *)

NL == "\n"

\* strings.Split(s, sep) for a one-byte separator
RECURSIVE Split(_, _)
Split(s, sep) ==
    IF \A i \in 1..Len(s) : s[i] # sep
    THEN <<s>>
    ELSE LET i == CHOOSE k \in 1..Len(s) :
                      s[k] = sep /\ \A j \in 1..(k - 1) : s[j] # sep
         IN  <<SubSeq(s, 1, i - 1)>> \o Split(SubSeq(s, i + 1, Len(s)), sep)

\* strings.Join(parts, sep)
RECURSIVE Join(_, _)
Join(parts, sep) ==
    IF Len(parts) = 0 THEN <<>>
    ELSE IF Len(parts) = 1 THEN parts[1]
    ELSE parts[1] \o <<sep>> \o Join(Tail(parts), sep)

\* filepath.SplitList on Unix: "" gives no element, else split at ':'
SplitList(s) == IF s = <<>> THEN <<>> ELSE Split(s, ":")

\* path.Ext(name): the suffix from the final dot, "" without a dot
Ext(name) ==
    IF \A i \in 1..Len(name) : name[i] # "."
    THEN <<>>
    ELSE LET i == CHOOSE k \in 1..Len(name) :
                      name[k] = "." /\ \A j \in (k + 1)..Len(name) : name[j] # "."
         IN  SubSeq(name, i, Len(name))

Range(s) == {s[i] : i \in 1..Len(s)}

----------------------------------------------------------------------------
(* The inputs: flags and source trees *)

nGit == <<".", "g", "i", "t">>
nGodeps == <<"G", "o", "d", "e", "p", "s">>
nVendor == <<"v", "e", "n", "d", "o", "r">>
nA == <<"a">>
nB == <<"b">>
nC == <<"c">>
nDocs == <<"d", "o", "c", "s">>
nLib == <<"l", "i", "b">>
nWeb == <<"w", "e", "b">>
nXGo == <<"x", ".", "g", "o">>
nTGo == <<"t", ".", "g", "o">>
nGoBak == <<"x", ".", "g", "o", ".", "b", "a", "k">>
nReadme == <<"R", "E", "A", "D", "M", "E">>

File(n) == [name |-> n, isDir |-> FALSE]
Dir(n) == [name |-> n, isDir |-> TRUE]

\* root/{a/x.go, b/.git/x.go, c/}
TreeIgnored ==
    [p \in {<<>>, <<nA>>, <<nB>>, <<nB, nGit>>, <<nC>>} |->
        CASE p = <<>> -> <<Dir(nA), Dir(nB), Dir(nC)>>
          [] p = <<nA>> -> <<File(nXGo)>>
          [] p = <<nB>> -> <<Dir(nGit)>>
          [] p = <<nB, nGit>> -> <<File(nXGo)>>
          [] p = <<nC>> -> <<>>]

\* a chain root/a/b/c with .go files at every level, Godeps and vendor beside it
TreeDeep ==
    [p \in {<<>>, <<nGodeps>>, <<nA>>, <<nA, nB>>, <<nA, nB, nC>>, <<nVendor>>} |->
        CASE p = <<>> -> <<Dir(nGodeps), Dir(nA), Dir(nVendor), File(nXGo)>>
          [] p = <<nGodeps>> -> <<File(nXGo)>>
          [] p = <<nA>> -> <<Dir(nB), File(nXGo)>>
          [] p = <<nA, nB>> -> <<Dir(nC), File(nXGo)>>
          [] p = <<nA, nB, nC>> -> <<File(nXGo)>>
          [] p = <<nVendor>> -> <<File(nXGo)>>]

\* directories without .go files above ones with; a directory named t.go
TreeDocs ==
    [p \in {<<>>, <<nDocs>>, <<nDocs, nLib>>, <<nDocs, nVendor>>, <<nDocs, nWeb>>,
            <<nDocs, nWeb, nTGo>>} |->
        CASE p = <<>> -> <<File(nReadme), Dir(nDocs)>>
          [] p = <<nDocs>> -> <<Dir(nLib), Dir(nVendor), Dir(nWeb), File(nGoBak)>>
          [] p = <<nDocs, nLib>> -> <<File(nXGo)>>
          [] p = <<nDocs, nVendor>> -> <<File(nXGo)>>
          [] p = <<nDocs, nWeb>> -> <<Dir(nTGo)>>
          [] p = <<nDocs, nWeb, nTGo>> -> <<>>]

Trees == {TreeIgnored, TreeDeep, TreeDocs}

\* values of -ignoredirs: the default ".git:Godeps:vendor", "" and "a:web"
DefaultIgnoreDirs == nGit \o <<":">> \o nGodeps \o <<":">> \o nVendor
IgnoreDirsInputs == {DefaultIgnoreDirs, <<>>, nA \o <<":">> \o nWeb}

\* -printcoverage, -requiredcoverage (E5) and -htmlcoverage as given together:
\* required coverage 0, 50, 80, 100 and, out of range, -0.5, 100.00005, 101
ReportInputs ==
    {[printcoverage |-> FALSE, requiredcoverage |-> 0, htmlcoverage |-> FALSE],
     [printcoverage |-> TRUE, requiredcoverage |-> 0, htmlcoverage |-> FALSE],
     [printcoverage |-> FALSE, requiredcoverage |-> 0, htmlcoverage |-> TRUE],
     [printcoverage |-> FALSE, requiredcoverage |-> 8000000, htmlcoverage |-> FALSE],
     [printcoverage |-> TRUE, requiredcoverage |-> 5000000, htmlcoverage |-> TRUE],
     [printcoverage |-> FALSE, requiredcoverage |-> 10000000, htmlcoverage |-> FALSE],
     [printcoverage |-> FALSE, requiredcoverage |-> 0 - 50000, htmlcoverage |-> FALSE],
     [printcoverage |-> FALSE, requiredcoverage |-> 10000005, htmlcoverage |-> FALSE],
     [printcoverage |-> TRUE, requiredcoverage |-> 10100000, htmlcoverage |-> TRUE]}

DepthInputs == (0 - 1)..MaxDepthArg

ArgsInputs ==
    {[depth |-> d, ignoreDirs |-> ig, printcoverage |-> r.printcoverage,
      requiredcoverage |-> r.requiredcoverage, htmlcoverage |-> r.htmlcoverage] :
        d \in DepthInputs, ig \in IgnoreDirsInputs, r \in ReportInputs}

\* what the test runner may write as a directory's profile
ModeLine == "mode: set"
LineHit == "f.go:1.1,2.2 1 1"
LineMiss == "f.go:3.1,4.2 1 0"
LineBig == "g.go:1.1,9.2 3 1"
LineNone == "f.go:5.1,5.2 0 1"
LineA1 == "h.go:1.1,9.2 199997 1"
LineA0 == "h.go:10.1,19.2 50003 0"
LineB1 == "i.go:1.1,9.2 199998 1"
LineB0 == "i.go:10.1,19.2 50002 0"
LineC1 == "j.go:1.1,9.2 197500 1"
LineC0 == "j.go:10.1,19.2 52500 0"
BlockLines == {LineHit, LineMiss, LineBig, LineNone, LineA1, LineA0, LineB1, LineB0,
               LineC1, LineC0}

\* each line followed by its newline
RECURSIVE EachOnItsLine(_)
EachOnItsLine(lines) ==
    IF lines = <<>> THEN <<>>
    ELSE <<Head(lines), NL>> \o EachOnItsLine(Tail(lines))

\* a profile file: the mode line, then the block lines
Profile(lines) == <<ModeLine, NL>> \o EachOnItsLine(lines)

\* profiles the test runner writes during the walk
WalkProfiles == {Profile(<<LineHit>>), Profile(<<LineMiss>>)}

\* the file at args.coverprofile before the run
OldOutput == <<"old", NL>>

\* ioutil.TempDir("", "gocoverdir")
TempDirName == <<"/", "t", "m", "p", "/", "g", "o", "c", "o", "v", "e", "r", "d", "i", "r", "1">>

----------------------------------------------------------------------------
(* State after flag parsing, before main calls Main *)

Idle(a, t) ==
    /\ args = a
    /\ fsys = t
    /\ log = "nil"
    /\ ignoreDirSet = {}
    /\ godepEnabled = FALSE
    /\ storeDir = <<>>
    /\ scratchExists = FALSE
    /\ scratch = <<>>
    /\ currentOutputIndex = 0
    /\ stack = <<>>
    /\ ret = "none"
    /\ err = "nil"
    /\ entered = <<>>
    /\ listed = <<>>
    /\ invoked = <<>>
    /\ spawned = 0
    /\ failed = "none"
    /\ outputFile = OldOutput
    /\ written = FALSE
    /\ scratchRead = FALSE
    /\ htmlGenerated = FALSE
    /\ computed = <<>>
    /\ printed = <<>>
    /\ panicMsg = "none"
    /\ exitStatus = 0 - 1

Init ==
    /\ pc = "setup"
    /\ \E a \in ArgsInputs, t \in Trees : Idle(a, t)

----------------------------------------------------------------------------
(* setup *)

\* 100.0001 and .001 in E5 units
MaxRequiredE5 == 10000010
EpsilonE5 == 100
E5 == 1000 * 100

\* verifyParams: TRUE when it panics
verifyParams == args.requiredcoverage < 0 \/ args.requiredcoverage > MaxRequiredE5

\* os.Open("Godeps") succeeds and is a directory
HasGodeps == \E i \in 1..Len(fsys[<<>>]) :
                 fsys[<<>>][i].name = nGodeps /\ fsys[<<>>][i].isDir

\* the set built from filepath.SplitList(args.ignoreDirs)
BuildIgnoreDirSet == Range(SplitList(args.ignoreDirs))

Frame(d, n) == [dir |-> d, depth |-> n, files |-> <<>>, i |-> 1, stage |-> "enter"]

PanicAsFatal(msg) == panicMsg' = msg /\ pc' = "exit"

\* lines 222 and 279, log.Panic: the panic unwinds to main's deferred functions
Panic(msg) == panicMsg' = msg /\ pc' = "recover"

\* setup, and Main's call of coverDirectory(".", 0) when it returns nil.  logOK: setupLogFile opened its sink (its error is
\* dropped, m.log stays nil and the first use of it panics); tmpOK: TempDir worked.
Setup ==
    /\ UNCHANGED failed
    /\ pc = "setup"
    /\ \E logOK \in BOOLEAN, tmpOK \in BOOLEAN :
        /\ log' = IF logOK THEN "set" ELSE "nil"
        /\ IF verifyParams
           THEN /\ Panic(IF logOK THEN "verifyParams" ELSE "nil log")
                /\ UNCHANGED <<godepEnabled, storeDir, scratchExists, ignoreDirSet,
                               stack, entered, err>>
           ELSE /\ godepEnabled' = HasGodeps
                /\ IF ~tmpOK
                   THEN /\ UNCHANGED <<storeDir, scratchExists, ignoreDirSet, stack,
                                       entered>>
                        /\ IF logOK
                           THEN /\ err' = "tempdir"
                                /\ pc' = "handleErr"
                                /\ UNCHANGED panicMsg
                           ELSE Panic("nil log") /\ UNCHANGED err
                   ELSE /\ storeDir' = TempDirName
                        /\ scratchExists' = TRUE
                        /\ UNCHANGED err
                        /\ IF logOK
                           THEN /\ ignoreDirSet' = BuildIgnoreDirSet
                                /\ stack' = <<Frame(<<>>, 0)>>
                                /\ entered' = <<<<<<>>, 0>>>>
                                /\ pc' = "walk"
                                /\ UNCHANGED panicMsg
                           ELSE /\ Panic("nil log")
                                /\ UNCHANGED <<ignoreDirSet, stack, entered>>
    /\ UNCHANGED <<args, fsys, scratch, currentOutputIndex, ret, listed,
                   invoked, spawned, outputFile, written, scratchRead, htmlGenerated,
                   computed, printed, exitStatus>>

----------------------------------------------------------------------------
(* The walk: coverDirectory and coverDir *)

Top == stack[Len(stack)]
SetTop(f) == [stack EXCEPT ![Len(stack)] = f]

DepthExceededOffByOne(depth) == depth > args.depth + 1

\* line 174: the depth limit
DepthExceeded(depth) == depth > args.depth

containsAnyFile(files) == \E i \in 1..Len(files) : ~files[i].isDir

\* containsGoTest
containsGoTest(files) == \E i \in 1..Len(files) : Ext(files[i].name) = <<".", "g", "o">>

ignoredDirNever(name) == FALSE

\* line 190: the entry's name is in the ignored set
ignoredDir(name) == name \in ignoreDirSet

\* line 184: coverRes != nil
coverResFailed(coverRes) == coverRes # "nil"

childFailedIgnored(r) == FALSE

\* line 193: the recursive call's err != nil
childFailed(r) == r # "nil"

\* the call on top of the stack returns r; Main returns what the root call returns
Return(r) ==
    /\ stack' = SubSeq(stack, 1, Len(stack) - 1)
    /\ ret' = r
    /\ IF Len(stack) = 1
       THEN pc' = "handleErr" /\ err' = r
       ELSE UNCHANGED <<pc, err>>

WalkFrame == <<args, fsys, log, ignoreDirSet, godepEnabled, storeDir, scratchExists,
               outputFile, written, scratchRead, htmlGenerated, computed, printed,
               panicMsg, exitStatus>>

\* lines 173-176: entry of coverDirectory
CoverDirectoryEnter ==
    /\ UNCHANGED failed
    /\ pc = "walk" /\ stack # <<>> /\ Top.stage = "enter"
    /\ IF DepthExceeded(Top.depth)
       THEN Return("nil")
       ELSE /\ stack' = SetTop([Top EXCEPT !.stage = "list"])
            /\ UNCHANGED <<ret, pc, err>>
    /\ UNCHANGED <<entered, listed, invoked, spawned, scratch, currentOutputIndex>>
    /\ UNCHANGED WalkFrame

\* lines 177-181: ioutil.ReadDir(dirpath), which may fail
CoverDirectoryList ==
    /\ pc = "walk" /\ stack # <<>> /\ Top.stage = "list"
    /\ \E ok \in BOOLEAN :
        IF ~ok
        THEN /\ Return("readdir")
             /\ failed' = IF failed = "none" THEN "readdir" ELSE failed
             /\ UNCHANGED listed
        ELSE /\ UNCHANGED failed
             /\ listed' = Append(listed, Top.dir)
             /\ stack' = SetTop([Top EXCEPT
                    !.files = fsys[Top.dir],
                    !.stage = IF containsGoTest(fsys[Top.dir]) THEN "test" ELSE "loop"])
             /\ UNCHANGED <<ret, pc, err>>
    /\ UNCHANGED <<entered, invoked, spawned, scratch, currentOutputIndex>>
    /\ UNCHANGED WalkFrame

\* the file a successful test run leaves in the scratch directory
ProfileFile(n, c) == [name |-> n, isDir |-> FALSE, contents |-> c]

\* lines 182-187 with coverDir: the runner fails to start, exits non-zero, or
\* exits zero having written its profile (or none: a package without tests)
CoverDir ==
    /\ pc = "walk" /\ stack # <<>> /\ Top.stage = "test"
    /\ currentOutputIndex' = currentOutputIndex + 1
    /\ invoked' = Append(invoked, Top.dir)
    /\ \E outcome \in {"start", "exit", "ok", "nofile"} :
        LET coverRes == IF outcome \in {"start", "exit"} THEN outcome ELSE "nil" IN
        /\ spawned' = IF outcome = "start" THEN spawned ELSE spawned + 1
        /\ failed' = IF failed = "none" /\ coverRes # "nil" THEN coverRes ELSE failed
        /\ IF outcome = "ok"
           THEN \E c \in WalkProfiles :
                    scratch' = Append(scratch, ProfileFile(currentOutputIndex', c))
           ELSE UNCHANGED scratch
        /\ IF coverResFailed(coverRes)
           THEN Return(coverRes)
           ELSE /\ stack' = SetTop([Top EXCEPT !.stage = "loop"])
                /\ UNCHANGED <<ret, pc, err>>
    /\ UNCHANGED <<entered, listed>>
    /\ UNCHANGED WalkFrame

\* lines 188-199: one turn of the loop over the entries, or the final return nil
CoverDirectoryLoop ==
    /\ UNCHANGED failed
    /\ pc = "walk" /\ stack # <<>> /\ Top.stage = "loop"
    /\ IF Top.i > Len(Top.files)
       THEN Return("nil") /\ UNCHANGED entered
       ELSE LET file == Top.files[Top.i] IN
            /\ IF file.isDir /\ ~ignoredDir(file.name)
               THEN LET finalName == Append(Top.dir, file.name) IN
                    /\ stack' = Append(SetTop([Top EXCEPT !.stage = "wait"]),
                                       Frame(finalName, Top.depth + 1))
                    /\ entered' = Append(entered, <<finalName, Top.depth + 1>>)
               ELSE /\ stack' = SetTop([Top EXCEPT !.i = Top.i + 1])
                    /\ UNCHANGED entered
            /\ UNCHANGED <<ret, pc, err>>
    /\ UNCHANGED <<listed, invoked, spawned, scratch, currentOutputIndex>>
    /\ UNCHANGED WalkFrame

\* lines 192-195: the recursive call has returned
CoverDirectoryResume ==
    /\ UNCHANGED failed
    /\ pc = "walk" /\ stack # <<>> /\ Top.stage = "wait"
    /\ IF childFailed(ret)
       THEN Return(ret)
       ELSE /\ stack' = SetTop([Top EXCEPT !.stage = "loop", !.i = Top.i + 1])
            /\ UNCHANGED <<ret, pc, err>>
    /\ UNCHANGED <<entered, listed, invoked, spawned, scratch, currentOutputIndex>>
    /\ UNCHANGED WalkFrame

----------------------------------------------------------------------------
(* handleErr: the merge *)

RECURSIVE MergeFilesKeepHeaders(_, _)
MergeFilesKeepHeaders(files, outputBuffer) ==
    IF files = <<>> THEN outputBuffer
    ELSE MergeFilesKeepHeaders(Tail(files), outputBuffer \o Head(files).contents)

\* lines 233-247: the loop over the scratch directory's entries
RECURSIVE MergeFiles(_, _)
MergeFiles(files, outputBuffer) ==
    IF files = <<>> THEN outputBuffer
    ELSE LET file == Head(files) IN
         IF file.isDir THEN MergeFiles(Tail(files), outputBuffer)
         ELSE IF Len(outputBuffer) = 0
              THEN MergeFiles(Tail(files), outputBuffer \o file.contents)
              ELSE LET fileLines == Split(file.contents, NL) IN
                   MergeFiles(Tail(files), outputBuffer \o Join(Tail(fileLines), NL))

Merged == MergeFiles(scratch, <<>>)

HandleErrFailedMerges ==
    /\ UNCHANGED failed
    /\ pc = "handleErr" /\ err # "nil"
    /\ scratchRead' = TRUE
    /\ outputFile' = Merged
    /\ written' = TRUE
    /\ Panic(err)
    /\ UNCHANGED <<args, fsys, log, ignoreDirSet, godepEnabled, storeDir, scratchExists,
                   scratch, currentOutputIndex, stack, ret, err, entered, listed,
                   invoked, spawned, htmlGenerated, computed, printed, exitStatus>>

\* lines 219-227: Main failed; the deferred function panics with the error
HandleErrFailed ==
    /\ UNCHANGED failed
    /\ pc = "handleErr" /\ err # "nil"
    /\ Panic(err)
    /\ UNCHANGED <<args, fsys, log, ignoreDirSet, godepEnabled, storeDir, scratchExists,
                   scratch, currentOutputIndex, stack, ret, err, entered, listed,
                   invoked, spawned, outputFile, written, scratchRead, htmlGenerated,
                   computed, printed, exitStatus>>

\* lines 229-251: Main succeeded.  The scratch listing may fail (panic); a file
\* read may fail, which sets only the loop's own err, so handleErr returns
\* without a panic; the write may fail, leaving the output as it was, empty or
\* complete (panic).
HandleErrMerge ==
    /\ UNCHANGED failed
    /\ pc = "handleErr" /\ err = "nil"
    /\ \E outcome \in {"scratchread", "readfile", "writefile", "ok"} :
        /\ outcome = "readfile" => \E i \in 1..Len(scratch) : ~scratch[i].isDir
        /\ scratchRead' = (outcome # "scratchread")
        /\ CASE outcome = "scratchread" ->
                  /\ err' = "scratchread"
                  /\ Panic("scratchread")
                  /\ UNCHANGED <<outputFile, written>>
             [] outcome = "readfile" ->
                  /\ pc' = "recover"
                  /\ UNCHANGED <<err, panicMsg, outputFile, written>>
             [] outcome = "writefile" ->
                  /\ err' = "writefile"
                  /\ Panic("writefile")
                  /\ written' = TRUE
                  /\ outputFile' \in {outputFile, <<>>, Merged}
             [] outcome = "ok" ->
                  /\ outputFile' = Merged
                  /\ written' = TRUE
                  /\ pc' = "handleCoverage"
                  /\ UNCHANGED <<err, panicMsg>>
    /\ UNCHANGED <<args, fsys, log, ignoreDirSet, godepEnabled, storeDir, scratchExists,
                   scratch, currentOutputIndex, stack, ret, entered, listed, invoked,
                   spawned, htmlGenerated, computed, printed, exitStatus>>

----------------------------------------------------------------------------
(* handleCoverage and calculateCoverage *)

\* the statement and hit counts cover.ParseProfiles reads from a block line
BlockOf(line) ==
    CASE line = LineHit -> [NumStmt |-> 1, Count |-> 1]
      [] line = LineMiss -> [NumStmt |-> 1, Count |-> 0]
      [] line = LineBig -> [NumStmt |-> 3, Count |-> 1]
      [] line = LineNone -> [NumStmt |-> 0, Count |-> 1]
      [] line = LineA1 -> [NumStmt |-> 199997, Count |-> 1]
      [] line = LineA0 -> [NumStmt |-> 50003, Count |-> 0]
      [] line = LineB1 -> [NumStmt |-> 199998, Count |-> 1]
      [] line = LineB0 -> [NumStmt |-> 50002, Count |-> 0]
      [] line = LineC1 -> [NumStmt |-> 197500, Count |-> 1]
      [] line = LineC0 -> [NumStmt |-> 52500, Count |-> 0]

\* the lines a bufio.Scanner yields: split at newlines, no final empty line
ScanLines(contents) ==
    LET parts == Split(contents, NL) IN
    IF parts[Len(parts)] = <<>> THEN SubSeq(parts, 1, Len(parts) - 1) ELSE parts

\* cover.ParseProfiles: the blocks of a profile, or an error for a bad mode
\* line or a line that is no block line
ParseProfiles(contents) ==
    LET lines == ScanLines(contents) IN
    IF lines = <<>> THEN [err |-> "nil", blocks |-> <<>>]
    ELSE IF lines[1] # <<ModeLine>> THEN [err |-> "parse", blocks |-> <<>>]
    ELSE IF \E i \in 2..Len(lines) : Len(lines[i]) # 1 \/ lines[i][1] \notin BlockLines
         THEN [err |-> "parse", blocks |-> <<>>]
         ELSE [err |-> "nil",
               blocks |-> [i \in 1..(Len(lines) - 1) |-> BlockOf(lines[i + 1][1])]]

RECURSIVE CountBlocksByHits(_, _, _)
CountBlocksByHits(blocks, total, covered) ==
    IF blocks = <<>> THEN [total |-> total, covered |-> covered]
    ELSE LET block == Head(blocks) IN
         CountBlocksByHits(Tail(blocks), total + block.NumStmt, covered + block.Count)

\* lines 292-301: the loop over the blocks
RECURSIVE CountBlocks(_, _, _)
CountBlocks(blocks, total, covered) ==
    IF blocks = <<>> THEN [total |-> total, covered |-> covered]
    ELSE LET block == Head(blocks) IN
         CountBlocks(Tail(blocks), total + block.NumStmt,
                     IF block.Count > 0 THEN covered + block.NumStmt ELSE covered)

\* lines 302-305: the percentage, as the fraction num/den
Percentage(total, covered) ==
    IF total = 0 THEN [num |-> 0, den |-> 1]
    ELSE [num |-> covered * 100, den |-> total]

\* calculateCoverage on parsed blocks
calculateCoverage(blocks) ==
    LET n == CountBlocks(blocks, 0, 0) IN Percentage(n.total, n.covered)

\* a/b < c/d for a, c >= 0 and b, d > 0, by continued fractions (no product)
RECURSIVE RatLess(_, _, _, _)
RatLess(a, b, c, d) ==
    LET qa == a \div b
        qc == c \div d
        ra == a % b
        rc == c % d
    IN  IF qa # qc THEN qa < qc
        ELSE IF rc = 0 THEN FALSE
        ELSE IF ra = 0 THEN TRUE
        ELSE RatLess(d, rc, b, ra)

BelowRequiredNoEpsilon(coverage, required) ==
    RatLess(coverage.num, coverage.den, required, E5)

\* line 277: coverage < m.args.requiredcoverage - .001
BelowRequired(coverage, required) ==
    required - EpsilonE5 > 0 /\ RatLess(coverage.num, coverage.den, required - EpsilonE5, E5)

\* handleCoverage as called at line 252, with handleErr's deferred function.
\* htmlOK: "go tool cover -html" exited zero; openOK: the profile could be opened.
HandleCoverage ==
    /\ UNCHANGED failed
    /\ pc = "handleCoverage"
    /\ \E htmlOK \in BOOLEAN, openOK \in BOOLEAN :
        LET parsed == ParseProfiles(outputFile)
            coverage == calculateCoverage(parsed.blocks)
            wanted == args.printcoverage \/ args.requiredcoverage > 0
        IN
        /\ ~args.htmlcoverage => htmlOK
        /\ ~(wanted /\ (~args.htmlcoverage \/ htmlOK)) => openOK
        /\ htmlGenerated' = args.htmlcoverage
        /\ IF args.htmlcoverage /\ ~htmlOK
           THEN /\ err' = "html"
                /\ Panic("html")
                /\ UNCHANGED <<computed, printed>>
           ELSE IF ~wanted
           THEN /\ pc' = "recover"
                /\ UNCHANGED <<err, panicMsg, computed, printed>>
           ELSE IF ~openOK \/ parsed.err # "nil"
           THEN /\ err' = "parse"
                /\ Panic("parse")
                /\ UNCHANGED <<computed, printed>>
           ELSE /\ computed' = Append(computed, coverage)
                /\ printed' = IF args.printcoverage THEN Append(printed, coverage)
                              ELSE printed
                /\ IF args.requiredcoverage > 0
                      /\ BelowRequired(coverage, args.requiredcoverage)
                   THEN Panic("threshold")
                   ELSE pc' = "recover" /\ UNCHANGED panicMsg
                /\ UNCHANGED err
    /\ UNCHANGED <<args, fsys, log, ignoreDirSet, godepEnabled, storeDir, scratchExists,
                   scratch, currentOutputIndex, stack, ret, entered, listed, invoked,
                   spawned, outputFile, written, scratchRead, exitStatus>>

----------------------------------------------------------------------------
(* main's deferred functions *)

\* lines 311-316: a panic in flight is recovered, the log buffer dumped, and
\* the panic raised again; without one the function does nothing
MainRecover ==
    /\ UNCHANGED failed
    /\ pc = "recover"
    /\ pc' = "close"
    /\ UNCHANGED <<args, fsys, log, ignoreDirSet, godepEnabled, storeDir, scratchExists,
                   scratch, currentOutputIndex, stack, ret, err, entered, listed,
                   invoked, spawned, outputFile, written, scratchRead, htmlGenerated,
                   computed, printed, panicMsg, exitStatus>>

\* Close, deferred first and so run last; then the process exits
Close ==
    /\ UNCHANGED failed
    /\ pc = "close"
    /\ pc' = "exit"
    /\ IF Len(storeDir) < 4
       THEN /\ panicMsg' = "mainStruct not setup correctly"
            /\ UNCHANGED <<scratchExists, scratch>>
       ELSE /\ scratchExists' = FALSE
            /\ scratch' = <<>>
            /\ UNCHANGED panicMsg
    /\ exitStatus' = IF panicMsg' # "none" THEN 2 ELSE 0
    /\ UNCHANGED <<args, fsys, log, ignoreDirSet, godepEnabled, storeDir,
                   currentOutputIndex, stack, ret, err, entered, listed, invoked,
                   spawned, outputFile, written, scratchRead, htmlGenerated, computed,
                   printed>>

----------------------------------------------------------------------------

Next ==
    \/ Setup
    \/ CoverDirectoryEnter
    \/ CoverDirectoryList
    \/ CoverDir
    \/ CoverDirectoryLoop
    \/ CoverDirectoryResume
    \/ HandleErrFailed
    \/ HandleErrMerge
    \/ HandleCoverage
    \/ MainRecover
    \/ Close

Spec == Init /\ [][Next]_vars

----------------------------------------------------------------------------
(* The merge alone: handleErr after a successful walk of TreeDeep (depth 2,  *)
(* nothing ignored), whose five test runs left 0..MaxFiles profiles.         *)

MergeProfiles == {Profile(<<>>), Profile(<<LineHit>>), Profile(<<LineMiss>>),
                  Profile(<<LineBig, LineNone>>)}

ScratchInputs ==
    UNION {[1..n -> MergeProfiles] : n \in 0..MaxFiles}

InitMerge ==
    /\ pc = "handleErr"
    /\ \E cs \in ScratchInputs, r \in {x \in ReportInputs : x.requiredcoverage = 0} :
        /\ args = [depth |-> 2, ignoreDirs |-> <<>>, printcoverage |-> r.printcoverage,
                   requiredcoverage |-> 0, htmlcoverage |-> r.htmlcoverage]
        /\ scratch = [i \in 1..Len(cs) |-> ProfileFile(i, cs[i])]
    /\ fsys = TreeDeep
    /\ log = "set"
    /\ ignoreDirSet = {}
    /\ godepEnabled = TRUE
    /\ storeDir = TempDirName
    /\ scratchExists = TRUE
    /\ currentOutputIndex = 5
    /\ stack = <<>>
    /\ ret = "nil"
    /\ err = "nil"
    /\ entered = <<<< <<>>, 0>>, <<<<nGodeps>>, 1>>, <<<<nA>>, 1>>, <<<<nA, nB>>, 2>>,
                   <<<<nA, nB, nC>>, 3>>, <<<<nVendor>>, 1>>>>
    /\ listed = << <<>>, <<nGodeps>>, <<nA>>, <<nA, nB>>, <<nVendor>> >>
    /\ invoked = listed
    /\ spawned = 5
    /\ failed = "none"
    /\ outputFile = OldOutput
    /\ written = FALSE
    /\ scratchRead = FALSE
    /\ htmlGenerated = FALSE
    /\ computed = <<>>
    /\ printed = <<>>
    /\ panicMsg = "none"
    /\ exitStatus = 0 - 1

NextMerge == HandleErrMerge \/ HandleCoverage \/ MainRecover \/ Close

SpecMerge == InitMerge /\ [][NextMerge]_vars

----------------------------------------------------------------------------
(* handleCoverage alone: after the walk of a tree of one directory and the   *)
(* merge of its one profile, of 0..MaxBlocks blocks.                         *)

TreeFlat == [p \in {<<>>} |-> <<File(nXGo)>>]

RECURSIVE SeqsUpTo(_, _)
SeqsUpTo(S, n) ==
    IF n = 0 THEN {<<>>}
    ELSE LET shorter == SeqsUpTo(S, n - 1) IN
         shorter \cup {Append(q, x) : q \in shorter, x \in S}

CoverageProfiles == {Profile(ls) : ls \in SeqsUpTo(BlockLines, MaxBlocks)}

\* required coverage 0, 50 and 80
CoverageReports ==
    {[printcoverage |-> pr, requiredcoverage |-> rq, htmlcoverage |-> FALSE] :
        pr \in BOOLEAN, rq \in {0, 5000000, 8000000}}

InitCoverage ==
    /\ pc = "handleCoverage"
    /\ \E c \in CoverageProfiles, r \in CoverageReports :
        /\ args = [depth |-> 10, ignoreDirs |-> DefaultIgnoreDirs,
                   printcoverage |-> r.printcoverage,
                   requiredcoverage |-> r.requiredcoverage,
                   htmlcoverage |-> r.htmlcoverage]
        /\ scratch = <<ProfileFile(1, c)>>
        /\ outputFile = c
    /\ fsys = TreeFlat
    /\ log = "set"
    /\ ignoreDirSet = {nGit, nGodeps, nVendor}
    /\ godepEnabled = FALSE
    /\ storeDir = TempDirName
    /\ scratchExists = TRUE
    /\ currentOutputIndex = 1
    /\ stack = <<>>
    /\ ret = "nil"
    /\ err = "nil"
    /\ entered = <<<< <<>>, 0>>>>
    /\ listed = << <<>> >>
    /\ invoked = << <<>> >>
    /\ spawned = 1
    /\ failed = "none"
    /\ written = TRUE
    /\ scratchRead = TRUE
    /\ htmlGenerated = FALSE
    /\ computed = <<>>
    /\ printed = <<>>
    /\ panicMsg = "none"
    /\ exitStatus = 0 - 1

NextCoverage == HandleCoverage \/ MainRecover \/ Close

SpecCoverage == InitCoverage /\ [][NextCoverage]_vars

----------------------------------------------------------------------------
(* Properties *)

Paths(q) == {q[i] : i \in 1..Len(q)}
EnteredPaths == {entered[i][1] : i \in 1..Len(entered)}

\* name is one of the colon-separated elements of the flag value s
IsElement(name, s) ==
    /\ name # <<>>
    /\ \A i \in 1..Len(name) : name[i] # ":"
    /\ \E i \in 1..Len(s) :
        LET j == i + Len(name) - 1 IN
        /\ j <= Len(s)
        /\ SubSeq(s, i, j) = name
        /\ i = 1 \/ s[i - 1] = ":"
        /\ j = Len(s) \/ s[j + 1] = ":"

\* name ends in ".go"
HasGoSuffix(name) ==
    Len(name) >= 3 /\ SubSeq(name, Len(name) - 2, Len(name)) = <<".", "g", "o">>

\* the directory d has no entry ending in ".go"
GoLess(d) == \A i \in 1..Len(fsys[d]) : ~HasGoSuffix(fsys[d][i].name)

\* a step of the walk has failed
WalkFailed == failed # "none"

\* the coverage value covered/total*100
IsCoverage(c, covered, total) == c.num = covered * 100 /\ c.den = total

\* handleCoverage took the panic path of line 279
ThresholdFailure == panicMsg = "threshold"

Required80 == args.requiredcoverage = 8000000 /\ computed # <<>>

\* C1 as stated: with requiredcoverage = 80.0, a computed coverage of 79.9988
\* is not a threshold failure, and 79.0 is one.
C1_AsStated ==
    Required80 =>
        /\ IsCoverage(computed[1], 199997, 250000) => ~ThresholdFailure
        /\ IsCoverage(computed[1], 197500, 250000) => ThresholdFailure

\* C1 amended: with requiredcoverage = 80.0, a computed coverage of 79.9992
\* (less than 0.001 below 80) is not a threshold failure, while 79.9988
\* (0.0012 below) and 79.0 are threshold failures.
C1_Tolerance ==
    Required80 =>
        /\ IsCoverage(computed[1], 199998, 250000) => ~ThresholdFailure
        /\ IsCoverage(computed[1], 199997, 250000) => ThresholdFailure
        /\ IsCoverage(computed[1], 197500, 250000) => ThresholdFailure

C1_Witness ==
    /\ Required80
    /\ IsCoverage(computed[1], 199998, 250000)
    /\ pc = "exit"
    /\ exitStatus = 0

\* the block lines of a profile, in order
BodyLines(contents) == SelectSeq(contents, LAMBDA c : c \in BlockLines)

RECURSIVE AllBodyLines(_)
AllBodyLines(files) ==
    IF files = <<>> THEN <<>>
    ELSE BodyLines(Head(files).contents) \o AllBodyLines(Tail(files))

\* C2: for N >= 1 profile files in the scratch area, the merge writes one
\* header line followed by every non-header line of every file, in listing
\* order, each on its own line; no second header appears.
C2_MergedProfile ==
    (pc = "handleCoverage" /\ Len(scratch) >= 1) =>
        /\ outputFile = Profile(AllBodyLines(scratch))
        /\ Cardinality({i \in 1..Len(outputFile) : outputFile[i] = ModeLine}) = 1

C2_Witness ==
    /\ pc = "handleCoverage"
    /\ Len(scratch) >= 3
    /\ Len(BodyLines(scratch[1].contents)) = 1
    /\ Len(BodyLines(scratch[2].contents)) = 2
    /\ Len(BodyLines(scratch[3].contents)) = 1
    /\ scratch[1].contents # scratch[3].contents

\* C3 as stated: with a requiredcoverage below 0 or above 100 the run fails
\* validation in setup: no directory is listed by the walk and no test runner
\* is invoked or spawned.
C3_OutOfRangeRejected ==
    (args.requiredcoverage < 0 \/ args.requiredcoverage > 10000000) =>
        listed = <<>> /\ invoked = <<>> /\ spawned = 0

\* C4: no directory deeper than the -depth value (root at depth 0) is
\* listed or passed to coverDir.
C4_DepthLimit ==
    \A p \in Paths(listed) \cup Paths(invoked) : Len(p) <= args.depth

C4_Witness ==
    /\ pc = "exit"
    /\ exitStatus = 0
    /\ listed # <<>>
    /\ \E i \in 1..Len(entered) : entered[i][2] > args.depth

\* C5: once setup has created the scratch directory, it is gone when the
\* process exits, whatever the exit path.
C5_ScratchRemoved ==
    (pc = "exit" /\ storeDir # <<>>) => ~scratchExists

C5_Witness ==
    /\ pc = "exit"
    /\ storeDir # <<>>
    /\ panicMsg = "threshold"
    /\ exitStatus = 2
    /\ ~scratchExists

\* C6: once a step of the walk has failed, no further directory is entered
\* or listed and no further test runner is invoked or spawned, and the walk
\* returns that error.
C6_FailFast ==
    [][WalkFailed =>
          /\ entered' = entered
          /\ listed' = listed
          /\ invoked' = invoked
          /\ spawned' = spawned
          /\ failed' = failed
          /\ pc' # "walk" => err' = failed]_vars

C6_Witness ==
    /\ WalkFailed
    /\ pc = "walk"
    /\ \E k \in 1..Len(stack) :
        \E j \in (stack[k].i + 1)..Len(stack[k].files) :
            /\ stack[k].files[j].isDir
            /\ stack[k].files[j].name \notin ignoreDirSet

\* C7: no directory whose name (or an ancestor's name) is an element of
\* -ignoredirs is entered, listed or passed to coverDir.
C7_IgnoredNeverWalked ==
    \A p \in EnteredPaths \cup Paths(listed) \cup Paths(invoked) :
        \A m \in 1..Len(p) : ~IsElement(p[m], args.ignoreDirs)

C7_Witness ==
    /\ pc = "exit"
    /\ exitStatus = 0
    /\ fsys = TreeIgnored
    /\ args.ignoreDirs = DefaultIgnoreDirs
    /\ args.depth >= 2
    /\ <<nB>> \in Paths(listed)

\* C8: a listed directory without an entry ending in .go is never passed to
\* coverDir, and coverDirectory is called with depth+1 on each of its
\* subdirectories that is not ignored as soon as its loop reaches it (it is
\* never skipped; only a failed step ends the loop early).
C8_GoLessDirectory ==
    \A d \in Paths(listed) :
        GoLess(d) =>
            /\ d \notin Paths(invoked)
            /\ \A j \in 1..Len(fsys[d]) :
                (fsys[d][j].isDir /\ ~IsElement(fsys[d][j].name, args.ignoreDirs)) =>
                    \/ \E n \in 1..Len(entered) :
                          entered[n] = <<Append(d, fsys[d][j].name), Len(d) + 1>>
                    \/ \E k \in 1..Len(stack) : stack[k].dir = d /\ stack[k].i <= j
                    \/ WalkFailed

C8_Witness ==
    /\ pc = "exit"
    /\ exitStatus = 0
    /\ fsys = TreeDocs
    /\ args.ignoreDirs = DefaultIgnoreDirs
    /\ <<nDocs>> \in Paths(listed)
    /\ <<nDocs>> \notin Paths(invoked)
    /\ \E n \in 1..Len(entered) : entered[n] = <<<<nDocs, nLib>>, 2>>
    /\ \E n \in 1..Len(entered) : entered[n] = <<<<nDocs, nWeb>>, 2>>

ParsedBlocks == ParseProfiles(outputFile).blocks

RECURSIVE SumStmts(_, _)
SumStmts(blocks, I) ==
    IF I = {} THEN 0
    ELSE LET i == CHOOSE x \in I : TRUE IN
         blocks[i].NumStmt + SumStmts(blocks, I \ {i})

TotalStmts == SumStmts(ParsedBlocks, 1..Len(ParsedBlocks))
CoveredStmts ==
    SumStmts(ParsedBlocks, {i \in 1..Len(ParsedBlocks) : ParsedBlocks[i].Count > 0})

\* C9: calculateCoverage returns exactly 0 when the statement counts sum to
\* 0, and otherwise covered/total*100 with covered the statements of the
\* blocks hit at least once; covered <= total, the result is in [0,100], and
\* the blocks (1 stmt, hit 1), (1 stmt, hit 0) give 50.
C9_Coverage ==
    computed # <<>> =>
        LET c == computed[1] IN
        /\ TotalStmts = 0 => c = [num |-> 0, den |-> 1]
        /\ TotalStmts # 0 => IsCoverage(c, CoveredStmts, TotalStmts)
        /\ CoveredStmts <= TotalStmts
        /\ c.den > 0 /\ 0 <= c.num /\ c.num <= 100 * c.den
        /\ ParsedBlocks = <<[NumStmt |-> 1, Count |-> 1], [NumStmt |-> 1, Count |-> 0]>>
               => c.num = 50 * c.den

C9_Witness ==
    /\ computed # <<>>
    /\ Len(ParsedBlocks) >= 2
    /\ TotalStmts = 0
    /\ computed[1] = [num |-> 0, den |-> 1]

\* setup or the walk returned an error
MainFailed == err \in {"tempdir", "readdir", "start", "exit"}

\* C10: when setup or the walk returned an error, handleErr reads no scratch
\* area, leaves the file at the coverprofile path as it was, generates no
\* HTML and computes and prints no coverage; it panics with that error.
C10_NoMergeOnError ==
    (MainFailed /\ pc \notin {"setup", "walk"}) =>
        /\ pc \in {"handleErr", "recover", "close", "exit"}
        /\ ~scratchRead
        /\ ~written
        /\ outputFile = OldOutput
        /\ ~htmlGenerated
        /\ computed = <<>>
        /\ printed = <<>>
        /\ pc \in {"recover", "close"} => panicMsg = err

C10_Witness ==
    /\ MainFailed
    /\ pc = "recover"
    /\ err = "exit"
    /\ Len(scratch) >= 1
    /\ args.printcoverage
    /\ args.htmlcoverage

====
